---- MODULE Spec2Model ----
(***************************************************************************)
(* code_collector (src/src/main.rs): walk a directory, keep the files that  *)
(* pass the directory-exclusion and extension filters, append each file's   *)
(* header and content to one buffer, print the tree of the included paths   *)
(* and put the buffer on the clipboard.                                     *)
(*                                                                          *)
(* Text is modelled character by character: a string is a sequence of       *)
(* one-character strings, a path is a sequence of components, each a        *)
(* string.  The box-drawing glyphs of the tree printer are written with     *)
(* ASCII stand-ins of the same width ("|-- ", "+-- ", "|   ").              *)
(***************************************************************************)
EXTENDS Integers, Sequences, FiniteSets, TLC

VARIABLES
    pc,            \* position of main: Init, Walking, TreeBuilding, Rendering, Publishing, Done, Failed
    fs,            \* the files below the scan root: relative path -> result of reading it
    args,          \* the parsed command line: [extensions, exclude_dirs]
    extensions,    \* main's lowercased extension list
    excluded_dirs, \* the set moved into the filter_entry closure
    todo,          \* entries the walker has not reached yet
    opened,        \* directories the walker has yielded and descends into
    code_buffer,   \* main's code_buffer
    copied_files,  \* main's copied_files
    root,          \* the TreeNode built from copied_files
    next_path,     \* index of the next element of copied_files to insert into root
    stdout,        \* lines printed with println!
    stderr,        \* lines printed with eprintln!
    clipboard,     \* texts handed to Clipboard::set_text, oldest first
    failure,       \* what made main return Err ("" while it has not): "types",
                   \* "root" (the walk fails at the scan root), "walk" (at an entry
                   \* below it), "strip_prefix", "clipboard"
    entry          \* the entry the walk loop is at: <<>> or <<entry>>

vars == <<pc, fs, args, extensions, excluded_dirs, todo, opened, code_buffer,
          copied_files, root, next_path, stdout, stderr, clipboard, failure, entry>>

---------------------------------------------------------------------------
(* Bounds of the model. *)

\* the largest number of files below the scan root
MaxFiles == 2

\* the largest number of add_path calls on one tree
MaxInserts == 3

---------------------------------------------------------------------------
(* Characters and strings. *)

\* the characters of the model in byte order, which is the order String's Ord uses
Chars ==
    << "\n", " ", "!", "#", "*", "-", ".", "/", "<", ">",
       "A", "B", "C", "D", "E", "F", "G", "H", "I", "J", "K", "L", "M",
       "N", "O", "P", "Q", "R", "S", "T", "U", "V", "W", "X", "Y", "Z", "_",
       "a", "b", "c", "d", "e", "f", "g", "h", "i", "j", "k", "l", "m",
       "n", "o", "p", "q", "r", "s", "t", "u", "v", "w", "x", "y", "z" >>

Code(c) == CHOOSE i \in 1..Len(Chars) : Chars[i] = c

Upper == << "A", "B", "C", "D", "E", "F", "G", "H", "I", "J", "K", "L", "M",
            "N", "O", "P", "Q", "R", "S", "T", "U", "V", "W", "X", "Y", "Z" >>

Lower == << "a", "b", "c", "d", "e", "f", "g", "h", "i", "j", "k", "l", "m",
            "n", "o", "p", "q", "r", "s", "t", "u", "v", "w", "x", "y", "z" >>

\* str::to_lowercase on the characters of the model
to_lowercase(s) ==
    [i \in 1..Len(s) |->
        IF \E k \in 1..Len(Upper) : Upper[k] = s[i]
        THEN Lower[CHOOSE k \in 1..Len(Upper) : Upper[k] = s[i]]
        ELSE s[i]]

\* the string a character sequence spells
RECURSIVE Str(_)
Str(s) == IF s = <<>> THEN "" ELSE Head(s) \o Str(Tail(s))

\* String's Ord: lexicographic on bytes, a proper prefix first
RECURSIVE StrLess(_, _)
StrLess(a, b) ==
    IF b = <<>> THEN FALSE
    ELSE IF a = <<>> THEN TRUE
    ELSE IF Head(a) # Head(b) THEN Code(Head(a)) < Code(Head(b))
    ELSE StrLess(Tail(a), Tail(b))

\* a is the beginning of b
IsPrefix(a, b) == Len(a) <= Len(b) /\ SubSeq(b, 1, Len(a)) = a

\* the elements of a sequence of sequences, one after the other
RECURSIVE Flatten(_)
Flatten(ss) == IF ss = <<>> THEN <<>> ELSE Head(ss) \o Flatten(Tail(ss))

\* Path::to_string_lossy of a relative path: the components joined by "/"
RECURSIVE PathString(_)
PathString(p) ==
    IF p = <<>> THEN <<>>
    ELSE IF Len(p) = 1 THEN p[1]
    ELSE p[1] \o <<"/">> \o PathString(Tail(p))

\* Path::extension: what follows the last "." of the file name, none ("" after
\* unwrap_or) when there is no "." or the only "." starts the name
Dots(name) == {i \in 1..Len(name) : name[i] = "."}

LastDot(name) == CHOOSE i \in Dots(name) : \A j \in Dots(name) : j <= i

PathExtension(name) ==
    IF Dots(name) = {} \/ LastDot(name) = 1 THEN <<>>
    ELSE SubSeq(name, LastDot(name) + 1, Len(name))

\* Path::strip_prefix: the components after base, or an error
strip_prefix(path, base) ==
    IF Len(base) <= Len(path) /\ SubSeq(path, 1, Len(base)) = base
    THEN [ok |-> TRUE, path |-> SubSeq(path, Len(base) + 1, Len(path))]
    ELSE [ok |-> FALSE, path |-> <<>>]

---------------------------------------------------------------------------
(* Comment-Style Resolver. *)

LineStyle(prefix) == [style |-> "Line", prefix |-> prefix, suffix |-> <<>>]

BlockStyle(start, end) == [style |-> "Block", prefix |-> start, suffix |-> end]

get_comment_syntax(extension) ==
    LET e == Str(extension) IN
    IF e \in {"rs", "js", "ts", "c", "h", "cpp", "hpp", "java", "cs", "go", "swift",
              "kt", "kts"}
    THEN LineStyle(<<"/", "/">>)
    ELSE IF e \in {"py", "sh", "yaml", "yml", "toml", "ini", "rb", "pl", "r", "php",
                   "ps1", "makefile"}
    THEN LineStyle(<<"#">>)
    ELSE IF e \in {"html", "xml", "xhtml"}
    THEN BlockStyle(<<"<", "!", "-", "-">>, <<"-", "-", ">">>)
    ELSE IF e = "css"
    THEN BlockStyle(<<"/", "*">>, <<"*", "/">>)
    ELSE LineStyle(<<"/", "/">>)

\* the block header with the closing mark on the line of the path
Header_OneLine(comment_syntax, full_relative_path) ==
    IF comment_syntax.style = "Line"
    THEN comment_syntax.prefix \o <<" ">> \o full_relative_path \o <<"\n">>
    ELSE comment_syntax.prefix \o <<" ">> \o full_relative_path \o <<" ">>
         \o comment_syntax.suffix \o <<"\n">>

\* the header main formats for a file: "{prefix} {path}\n" or "{start} {path}\n{end}\n"
Header(comment_syntax, full_relative_path) ==
    IF comment_syntax.style = "Line"
    THEN comment_syntax.prefix \o <<" ">> \o full_relative_path \o <<"\n">>
    ELSE comment_syntax.prefix \o <<" ">> \o full_relative_path \o <<"\n">>
         \o comment_syntax.suffix \o <<"\n">>

\* file_content closed by one newline
FileContent_OneNewline(comment_syntax, full_relative_path, content) ==
    Header(comment_syntax, full_relative_path) \o content \o <<"\n">>

\* file_content: the header, the content as read, two newlines
FileContent(comment_syntax, full_relative_path, content) ==
    Header(comment_syntax, full_relative_path) \o content \o <<"\n", "\n">>

---------------------------------------------------------------------------
(* Path Tree. *)

TreeNode_new(name) == [name |-> name, children |-> <<>>]

\* add_path putting a new node in place of the child it finds
RECURSIVE add_path_Replace(_, _)
add_path_Replace(self, path_components) ==
    IF path_components = <<>> THEN self
    ELSE LET name == Head(path_components)
         IN  [self EXCEPT !.children =
                 (name :> add_path_Replace(TreeNode_new(name), Tail(path_components)))
                 @@ self.children]

RECURSIVE add_path(_, _)
add_path(self, path_components) ==
    IF path_components = <<>> THEN self
    ELSE LET name == Head(path_components)
             node == IF name \in DOMAIN self.children
                     THEN self.children[name]
                     ELSE TreeNode_new(name)
         IN  [self EXCEPT !.children =
                 (name :> add_path(node, Tail(path_components))) @@ self.children]

\* the keys sorted the wrong way round
RECURSIVE SortedKeys_Descending(_)
SortedKeys_Descending(keys) ==
    IF keys = {} THEN <<>>
    ELSE LET greatest == CHOOSE k \in keys : \A o \in keys \ {k} : StrLess(o, k)
         IN  <<greatest>> \o SortedKeys_Descending(keys \ {greatest})

\* keys.sort(): the keys in ascending order
RECURSIVE SortedKeys(_)
SortedKeys(keys) ==
    IF keys = {} THEN <<>>
    ELSE LET least == CHOOSE k \in keys : \A o \in keys \ {k} : StrLess(k, o)
         IN  <<least>> \o SortedKeys(keys \ {least})

\* TreeNode::print: the lines it prints.  A line is the prefix (a sequence of
\* four-character groups), the four-character branch glyph, and the characters
\* of the name
RECURSIVE print(_, _, _)
print(self, prefix, is_last) ==
    LET own == IF self.name # <<>>
               THEN << prefix \o << IF is_last THEN "+-- " ELSE "|-- " >> \o self.name >>
               ELSE <<>>
        keys == SortedKeys(DOMAIN self.children)
        new_prefix == prefix \o << IF is_last THEN "    " ELSE "|   " >>
    IN  own \o Flatten([i \in 1..Len(keys) |->
                           print(self.children[keys[i]], new_prefix, i = Len(keys))])

---------------------------------------------------------------------------
(* The scan root and the files below it. *)

\* args.directory, as the components of the path
directory == << <<"w">> >>

a_py == <<"a", ".", "p", "y">>
B_PY == <<"B", ".", "P", "Y">>
s_css == <<"s", ".", "c", "s", "s">>
c_py == <<"c", ".", "p", "y">>
d_py == <<"d", ".", "p", "y">>
e_py == <<"e", ".", "p", "y">>
f_py == <<"f", ".", "p", "y">>
sub == <<"s", "u", "b">>
build == <<"b", "u", "i", "l", "d">>
env == <<"e", "n", "v">>
gen == <<"g", "e", "n">>

\* the relative paths a file of the model may have
FilePaths ==
    { <<a_py>>, <<B_PY>>, <<s_css>>, <<env>>,
      <<sub, c_py>>, <<build, d_py>>, <<sub, env, e_py>>, <<gen, f_py>> }

\* what a file of the model may hold
Contents == { <<"x">>, <<"x", "\n", "y">>, <<"x", "\n">> }

\* what fs::read_to_string may return for a file
ReadResults ==
    {[kind |-> "Ok", content |-> c] : c \in Contents}
    \cup {[kind |-> "InvalidData", content |-> <<>>],
          [kind |-> "PermissionDenied", content |-> <<>>]}

\* the command lines of the model
ArgsSet ==
    [extensions : {<<>>, << <<"P", "Y">>, <<"c", "s", "s">> >>},
     exclude_dirs : {<<>>, <<"gen">>}]

Last(s) == s[Len(s)]

Front(s) == SubSeq(s, 1, Len(s) - 1)

\* the directories the files of f lie in, the scan root (<<>>) among them
Dirs(f) == {<<>>} \cup UNION {{SubSeq(p, 1, n) : n \in 0..(Len(p) - 1)} : p \in DOMAIN f}

\* what the walker can meet: each a path below the scan root and what it is
Entries(f) ==
    {[path |-> p, is_dir |-> FALSE] : p \in DOMAIN f}
    \cup {[path |-> d, is_dir |-> TRUE] : d \in Dirs(f)}

---------------------------------------------------------------------------
(* main. *)

DefaultExcludedDirs ==
    {"node_modules", "target", "build", "dist", "venv", "env", ".venv", ".env"}

Range(s) == {s[i] : i \in 1..Len(s)}

Init ==
    /\ pc = "Init"
    /\ fs \in UNION {[S -> ReadResults] :
                        S \in {T \in SUBSET FilePaths : Cardinality(T) <= MaxFiles}}
    /\ args \in ArgsSet
    /\ extensions = <<>>
    /\ excluded_dirs = {}
    /\ todo = {}
    /\ opened = {}
    /\ code_buffer = <<>>
    /\ copied_files = <<>>
    /\ root = TreeNode_new(<<>>)
    /\ next_path = 1
    /\ stdout = <<>>
    /\ stderr = <<>>
    /\ clipboard = <<>>
    /\ failure = ""
    /\ entry = <<>>

\* lines 95-151: the configuration is built and the walker constructed
Configure ==
    /\ pc = "Init"
    /\ stdout' = Append(stdout, <<"Processing directory: ", Str(PathString(directory))>>)
    /\ extensions' = [i \in 1..Len(args.extensions) |-> to_lowercase(args.extensions[i])]
    /\ excluded_dirs' = DefaultExcludedDirs \cup Range(args.exclude_dirs)
    /\ todo' = Entries(fs)
    /\ pc' = "Walking"
    /\ UNCHANGED <<fs, args, opened, code_buffer, copied_files, root, next_path, stderr,
                   clipboard, failure, entry>>

\* lines 107 and 114: TypesBuilder::add or TypesBuilder::build returns an error
ConfigureFails ==
    /\ pc = "Init"
    /\ stdout' = Append(stdout, <<"Processing directory: ", Str(PathString(directory))>>)
    /\ extensions' = [i \in 1..Len(args.extensions) |-> to_lowercase(args.extensions[i])]
    /\ failure' = "types"
    /\ pc' = "Failed"
    /\ UNCHANGED <<fs, args, excluded_dirs, todo, opened, code_buffer, copied_files, root,
                   next_path, stderr, clipboard, entry>>

\* filter_entry looking the whole relative path up in excluded_dirs, not the
\* basename
filter_entry_WholePath(e) ==
    ~(e.is_dir /\ Str(PathString(e.path)) \in excluded_dirs)

\* the closure given to filter_entry: FALSE keeps the walker out of the entry
filter_entry(e) ==
    LET path == directory \o e.path
        dir_name == Last(path)
    IN  ~(e.is_dir /\ Str(dir_name) \in excluded_dirs)

\* the entries the walker can reach next: the scan root, and what lies directly
\* in a directory it has descended into
Eligible == {e \in todo : e.path = <<>> \/ Front(e.path) \in opened}

\* the walker passes over an entry without yielding it: filter_entry rejected
\* it, or the hidden-file, ignore-file or type rules of the walker did
WalkerSkips(e) ==
    /\ pc = "Walking"
    /\ e \in Eligible
    /\ e.path # <<>>
    /\ todo' = todo \ {e}
    /\ UNCHANGED <<pc, fs, args, extensions, excluded_dirs, opened, code_buffer,
                   copied_files, root, next_path, stdout, stderr, clipboard, failure,
                   entry>>

\* line 153-154: the walker yields Ok(entry); it descends into a directory it yields
WalkerYields(e) ==
    /\ pc = "Walking"
    /\ e \in Eligible
    /\ filter_entry(e)
    /\ todo' = todo \ {e}
    /\ opened' = IF e.is_dir THEN opened \cup {e.path} ELSE opened
    /\ entry' = <<e>>
    /\ pc' = "Entry"
    /\ UNCHANGED <<fs, args, extensions, excluded_dirs, code_buffer, copied_files, root,
                   next_path, stdout, stderr, clipboard, failure>>

\* line 154: the walker yields Err for an entry and `result?` returns it from main
WalkerErr(e) ==
    /\ pc = "Walking"
    /\ e \in Eligible
    /\ todo' = todo \ {e}
    /\ failure' = IF e.path = <<>> THEN "root" ELSE "walk"
    /\ pc' = "Failed"
    /\ UNCHANGED <<fs, args, extensions, excluded_dirs, opened, code_buffer, copied_files,
                   root, next_path, stdout, stderr, clipboard, entry>>

\* the extension check accepting a file whose extension begins a listed one
extension_rejected_StartsWith(extension) ==
    /\ extensions # <<>>
    /\ ~ \E i \in 1..Len(extensions) : IsPrefix(extension, extensions[i])

\* line 164: the extension list is given and does not hold the extension
extension_rejected(extension) ==
    /\ extensions # <<>>
    /\ ~ \E i \in 1..Len(extensions) : extensions[i] = extension

\* the read taking InvalidData for success with nothing read
Aggregate_BinaryIncluded(result, path, relative_path, comment_syntax) ==
    IF result.kind \in {"Ok", "InvalidData"}
    THEN [code_buffer |-> code_buffer
                          \o FileContent(comment_syntax, PathString(relative_path),
                                         result.content),
          copied_files |-> Append(copied_files, relative_path),
          stderr |-> stderr]
    ELSE [code_buffer |-> code_buffer,
          copied_files |-> copied_files,
          stderr |-> Append(stderr, <<"Could not read file ", Str(PathString(path)),
                                      ": ", result.kind>>)]

\* lines 173-199: what reading the file does to code_buffer, copied_files and stderr
Aggregate(result, path, relative_path, comment_syntax) ==
    IF result.kind = "Ok"
    THEN [code_buffer |-> code_buffer
                          \o FileContent(comment_syntax, PathString(relative_path),
                                         result.content),
          copied_files |-> Append(copied_files, relative_path),
          stderr |-> stderr]
    ELSE IF result.kind = "InvalidData"
    THEN [code_buffer |-> code_buffer,
          copied_files |-> copied_files,
          stderr |-> Append(stderr, <<"Skipping binary file ", Str(PathString(path))>>)]
    ELSE [code_buffer |-> code_buffer,
          copied_files |-> copied_files,
          stderr |-> Append(stderr, <<"Could not read file ", Str(PathString(path)),
                                      ": ", result.kind>>)]

\* lines 155-200: the body of the walk loop for the entry yielded
LoopBody ==
    /\ pc = "Entry"
    /\ LET e == entry[1]
           path == directory \o e.path
           extension == to_lowercase(PathExtension(Last(path)))
           relative_path == strip_prefix(path, directory)
           after == Aggregate(fs[e.path], path, relative_path.path,
                              get_comment_syntax(extension))
       IN  IF e.is_dir \/ extension_rejected(extension)
           THEN /\ pc' = "Walking"
                /\ UNCHANGED <<code_buffer, copied_files, stderr, failure>>
           ELSE IF ~relative_path.ok
           THEN /\ pc' = "Failed"
                /\ failure' = "strip_prefix"
                /\ UNCHANGED <<code_buffer, copied_files, stderr>>
           ELSE /\ pc' = "Walking"
                /\ code_buffer' = after.code_buffer
                /\ copied_files' = after.copied_files
                /\ stderr' = after.stderr
                /\ UNCHANGED failure
    /\ entry' = <<>>
    /\ UNCHANGED <<fs, args, extensions, excluded_dirs, todo, opened, root, next_path,
                   stdout, clipboard>>

\* line 201-203: the walker is exhausted
WalkerEnds ==
    /\ pc = "Walking"
    /\ Eligible = {}
    /\ root' = TreeNode_new(<<>>)
    /\ next_path' = 1
    /\ pc' = "TreeBuilding"
    /\ UNCHANGED <<fs, args, extensions, excluded_dirs, todo, opened, code_buffer,
                   copied_files, stdout, stderr, clipboard, failure, entry>>

\* lines 205-212: one turn of the loop over copied_files
AddPath ==
    /\ pc = "TreeBuilding"
    /\ next_path <= Len(copied_files)
    /\ root' = add_path(root, copied_files[next_path])
    /\ next_path' = next_path + 1
    /\ UNCHANGED <<pc, fs, args, extensions, excluded_dirs, todo, opened, code_buffer,
                   copied_files, stdout, stderr, clipboard, failure, entry>>

\* line 212: the loop over copied_files ends
TreeBuilt ==
    /\ pc = "TreeBuilding"
    /\ next_path > Len(copied_files)
    /\ pc' = "Rendering"
    /\ UNCHANGED <<fs, args, extensions, excluded_dirs, todo, opened, code_buffer,
                   copied_files, root, next_path, stdout, stderr, clipboard, failure,
                   entry>>

\* lines 214-215
Render ==
    /\ pc = "Rendering"
    /\ stdout' = Append(stdout, <<"Copied Files Tree:">>) \o print(root, <<>>, TRUE)
    /\ pc' = "Publishing"
    /\ UNCHANGED <<fs, args, extensions, excluded_dirs, todo, opened, code_buffer,
                   copied_files, root, next_path, stderr, clipboard, failure, entry>>

\* lines 218-223: the clipboard takes the buffer
Publish ==
    /\ pc = "Publishing"
    /\ clipboard' = Append(clipboard, code_buffer)
    /\ stdout' = Append(stdout, <<"Code buffer has been copied to the clipboard.">>)
    /\ pc' = "Done"
    /\ UNCHANGED <<fs, args, extensions, excluded_dirs, todo, opened, code_buffer,
                   copied_files, root, next_path, stderr, failure, entry>>

\* the clipboard keeping the text of a write that reports an error
PublishFails_TextKept ==
    /\ pc = "Publishing"
    /\ clipboard' = Append(clipboard, code_buffer)
    /\ failure' = "clipboard"
    /\ pc' = "Failed"
    /\ UNCHANGED <<fs, args, extensions, excluded_dirs, todo, opened, code_buffer,
                   copied_files, root, next_path, stdout, stderr, entry>>

\* lines 218-219: Clipboard::new or set_text returns an error
PublishFails ==
    /\ pc = "Publishing"
    /\ failure' = "clipboard"
    /\ pc' = "Failed"
    /\ UNCHANGED <<fs, args, extensions, excluded_dirs, todo, opened, code_buffer,
                   copied_files, root, next_path, stdout, stderr, clipboard, entry>>

Next ==
    \/ Configure
    \/ ConfigureFails
    \/ \E e \in todo : WalkerSkips(e)
    \/ \E e \in todo : WalkerYields(e)
    \/ \E e \in todo : WalkerErr(e)
    \/ LoopBody
    \/ WalkerEnds
    \/ AddPath
    \/ TreeBuilt
    \/ Render
    \/ Publish
    \/ PublishFails

Spec == Init /\ [][Next]_vars

---------------------------------------------------------------------------
(* The Path Tree on its own: add_path and print on any list of paths. *)

\* the component sequences given to add_path: the empty one, files at the top,
\* a directory and files in it
TreePaths == {<<>>, <<a_py>>, <<B_PY>>, <<sub>>, <<sub, c_py>>, <<sub, a_py>>}

\* main at line 203 with any list of at most MaxInserts paths in copied_files
InitTree ==
    /\ pc = "TreeBuilding"
    /\ copied_files \in UNION {[1..n -> TreePaths] : n \in 0..MaxInserts}
    /\ root = TreeNode_new(<<>>)
    /\ next_path = 1
    /\ fs = <<>>
    /\ args = [extensions |-> <<>>, exclude_dirs |-> <<>>]
    /\ extensions = <<>>
    /\ excluded_dirs = DefaultExcludedDirs
    /\ todo = {}
    /\ opened = {<<>>}
    /\ code_buffer = <<>>
    /\ stdout = << <<"Processing directory: ", Str(PathString(directory))>> >>
    /\ stderr = <<>>
    /\ clipboard = <<>>
    /\ failure = ""
    /\ entry = <<>>

NextTree ==
    \/ AddPath
    \/ TreeBuilt
    \/ Render

SpecTree == InitTree /\ [][NextTree]_vars

---------------------------------------------------------------------------
(* What the properties speak of. *)

\* the name paths from a node down to each node below it
RECURSIVE NodePaths(_)
NodePaths(node) ==
    UNION {{<<k>>} \cup {<<k>> \o p : p \in NodePaths(node.children[k])} :
              k \in DOMAIN node.children}

\* the lines printed after "Copied Files Tree:", the confirmation line left out
TreeLines ==
    IF \E i \in 1..Len(stdout) : stdout[i] = <<"Copied Files Tree:">>
    THEN LET h == CHOOSE i \in 1..Len(stdout) : stdout[i] = <<"Copied Files Tree:">>
             rest == SubSeq(stdout, h + 1, Len(stdout))
         IN  SelectSeq(rest, LAMBDA l : l # <<"Code buffer has been copied to the clipboard.">>)
    ELSE <<>>

\* the walk loop has ended
WalkOver == pc \in {"TreeBuilding", "Rendering", "Publishing", "Done"}

---------------------------------------------------------------------------
(* C1 *)

\* the exclusion set as the command line and the built-in list give it
ExclusionSet ==
    {"node_modules", "target", "build", "dist", "venv", "env", ".venv", ".env"}
    \cup Range(args.exclude_dirs)

\* a directory on the way to p, p itself left out, has an excluded basename
UnderExcludedDir(p) == \E i \in 1..(Len(p) - 1) : Str(p[i]) \in ExclusionSet

\* C1: no file below a directory whose basename is in the exclusion set (the
\* eight defaults and the names given with -x) is in copied_files or in the
\* tree, at any depth, and the walker never descends into such a directory
C1_ExcludedDirsPruned ==
    /\ \A i \in 1..Len(copied_files) : ~UnderExcludedDir(copied_files[i])
    /\ \A p \in NodePaths(root) : ~UnderExcludedDir(p)
    /\ \A d \in opened : \A i \in 1..Len(d) : Str(d[i]) \notin ExclusionSet
    /\ entry # <<>> => ~UnderExcludedDir(entry[1].path)

\* a run that ended with nothing included from a tree that holds a file in an
\* excluded directory nested in a directory the walker descended into, and a
\* file in a directory excluded with -x
C1_Witness ==
    /\ pc = "Done"
    /\ DOMAIN fs = {<<sub, env, e_py>>, <<gen, f_py>>}
    /\ \A p \in DOMAIN fs : fs[p].kind = "Ok"
    /\ args = [extensions |-> <<>>, exclude_dirs |-> <<"gen">>]
    /\ opened = {<<>>, <<sub>>}
    /\ copied_files = <<>>

---------------------------------------------------------------------------
(* C2 *)

\* the lowercased extension of the file name that ends path p
LoweredExtension(p) == to_lowercase(PathExtension(Last(p)))

\* C2: with a non-empty extension list every file in copied_files has a
\* lowercased extension equal to a member of the lowercased list, and the
\* extension check keeps no directory from being walked
C2_ExtensionsMatch ==
    /\ args.extensions # <<>> =>
           \A i \in 1..Len(copied_files) :
               \E k \in 1..Len(args.extensions) :
                   LoweredExtension(copied_files[i]) = to_lowercase(args.extensions[k])
    /\ pc = "Walking" =>
           \A e \in Eligible :
               (e.is_dir /\ Str(Last(directory \o e.path)) \notin ExclusionSet)
                   => ENABLED WalkerYields(e)

\* with an extension list, a file with an upper-case extension was included
\* while a file without extension is now before the extension check, in a
\* directory whose name has no listed extension
C2_Witness ==
    /\ args.extensions # <<>>
    /\ copied_files = << <<B_PY>> >>
    /\ pc = "Entry"
    /\ entry = << [path |-> <<env>>, is_dir |-> FALSE] >>
    /\ fs[<<env>>].kind = "Ok"

---------------------------------------------------------------------------
(* C3 *)

\* the header the claims describe for the file at relative path p: one line
\* "prefix path" for line style, the lines "start path" and "end" for block style
ExpectedHeader(p) ==
    LET cs == get_comment_syntax(LoweredExtension(p))
        first == cs.prefix \o <<" ">> \o PathString(p) \o <<"\n">>
    IN  IF cs.style = "Line" THEN first ELSE first \o cs.suffix \o <<"\n">>

\* t occurs in s
Contains(s, t) == \E i \in 0..(Len(s) - Len(t)) : SubSeq(s, i + 1, i + Len(t)) = t

\* the extension list lets the file at p through
PassesExtensions(p) ==
    \/ args.extensions = <<>>
    \/ \E k \in 1..Len(args.extensions) :
           LoweredExtension(p) = to_lowercase(args.extensions[k])

BinaryDiagnostic(p) == <<"Skipping binary file ", Str(PathString(directory \o p))>>

\* C3: the loop body for a file that does not decode as text leaves code_buffer
\* and copied_files as they are, writes one diagnostic line for the file to
\* stderr and goes on with the walk; such a file is never in copied_files, in
\* the buffer or in the tree, and never has two diagnostic lines
C3_BinarySkipped ==
    /\ [](\A p \in DOMAIN fs :
              fs[p].kind = "InvalidData" =>
                  /\ p \notin Range(copied_files)
                  /\ ~Contains(code_buffer, ExpectedHeader(p))
                  /\ p \notin NodePaths(root)
                  /\ \A l \in Range(TreeLines) : ~Contains(l, Last(p))
                  /\ Cardinality({i \in 1..Len(stderr) :
                                     stderr[i] = BinaryDiagnostic(p)}) <= 1)
    /\ [][(/\ pc = "Entry"
           /\ ~entry[1].is_dir
           /\ fs[entry[1].path].kind = "InvalidData"
           /\ PassesExtensions(entry[1].path))
          => /\ code_buffer' = code_buffer
             /\ copied_files' = copied_files
             /\ stderr' = Append(stderr, BinaryDiagnostic(entry[1].path))
             /\ pc' = "Walking"]_vars

\* a run that ended with one file included and one binary file reported
C3_Witness ==
    /\ pc = "Done"
    /\ Len(copied_files) = 1
    /\ \E p \in DOMAIN fs :
           /\ fs[p].kind = "InvalidData"
           /\ stderr = <<BinaryDiagnostic(p)>>

---------------------------------------------------------------------------
(* C4 *)

\* C4: a failure that concerns one entry of the walk (a file that cannot be
\* read, an error the walker reports for an entry below the scan root) never
\* makes main fail; main fails only for the configuration, an invalid scan
\* root or the clipboard
C4_EntryFailuresAbsorbed ==
    pc = "Failed" => failure \in {"types", "root", "clipboard"}

---------------------------------------------------------------------------
(* C9 *)

\* the block the claims describe for the included file at relative path p
ExpectedBlock(p) == ExpectedHeader(p) \o fs[p].content \o <<"\n", "\n">>

\* C9: code_buffer is always the blocks of the files of copied_files in their
\* order, a block being the header, the content as read and two newlines; the
\* buffer and the list only grow, and always together
C9_BufferIsBlocks ==
    /\ [](code_buffer
            = Flatten([i \in 1..Len(copied_files) |-> ExpectedBlock(copied_files[i])]))
    /\ [][/\ IsPrefix(code_buffer, code_buffer')
          /\ IsPrefix(copied_files, copied_files')
          /\ Len(copied_files') <= Len(copied_files) + 1
          /\ (code_buffer' # code_buffer) <=> (copied_files' # copied_files)]_vars

\* the walk has appended a block-style file and a line-style file whose
\* content holds a newline
C9_Witness ==
    /\ pc = "Walking"
    /\ Len(copied_files) = 2
    /\ \E i \in 1..2 : get_comment_syntax(LoweredExtension(copied_files[i])).style = "Block"
    /\ \E i \in 1..2 : /\ get_comment_syntax(LoweredExtension(copied_files[i])).style = "Line"
                       /\ Contains(fs[copied_files[i]].content, <<"\n">>)

---------------------------------------------------------------------------
(* C5 *)

\* str::split on "\n\n": the pieces between the occurrences found from the left
RECURSIVE SplitFrom(_, _)
SplitFrom(s, piece) ==
    IF s = <<>> THEN <<piece>>
    ELSE IF Len(s) >= 2 /\ s[1] = "\n" /\ s[2] = "\n"
    THEN <<piece>> \o SplitFrom(SubSeq(s, 3, Len(s)), <<>>)
    ELSE SplitFrom(Tail(s), Append(piece, Head(s)))

Segments == SplitFrom(code_buffer, <<>>)

\* the segments, the empty piece after the last separator not counted
FileSegments ==
    IF Last(Segments) = <<>> THEN Front(Segments) ELSE Segments

\* C5 as stated: the final buffer split on "\n\n" has one segment for each
\* included file, and each segment begins with the header of its file
C5_OneSegmentPerFile ==
    WalkOver =>
        /\ Len(FileSegments) = Len(copied_files)
        /\ \A i \in 1..Len(copied_files) :
               IsPrefix(ExpectedHeader(copied_files[i]), FileSegments[i])

\* a content that puts no separator of its own into the buffer
PlainContent(c) ==
    /\ c # <<>>
    /\ Head(c) # "\n"
    /\ Last(c) # "\n"
    /\ ~Contains(c, <<"\n", "\n">>)

\* C5 amended: when every included content is non-empty, has no two newlines
\* in a row and neither begins nor ends with a newline, the final buffer split
\* on "\n\n" has one segment for each included file, in order, each the header
\* of its file followed by its content, and then one empty segment
C5_SegmentsOfPlainContents ==
    (WalkOver /\ \A i \in 1..Len(copied_files) : PlainContent(fs[copied_files[i]].content))
    => /\ Len(Segments) = Len(copied_files) + 1
       /\ Last(Segments) = <<>>
       /\ \A i \in 1..Len(copied_files) :
              Segments[i] = ExpectedHeader(copied_files[i]) \o fs[copied_files[i]].content

\* a finished walk that included a block-style and a line-style file, both of
\* plain content, one with a newline inside
C5_Witness ==
    /\ pc = "Done"
    /\ Len(copied_files) = 2
    /\ \A i \in 1..2 : PlainContent(fs[copied_files[i]].content)
    /\ \E i \in 1..2 : Contains(fs[copied_files[i]].content, <<"\n">>)
    /\ \E i \in 1..2 : get_comment_syntax(LoweredExtension(copied_files[i])).style = "Block"

---------------------------------------------------------------------------
(* C7 *)

\* the number of four-character groups before the branch glyph of a line
Indent(line) == (CHOOSE i \in 1..Len(line) : line[i] \in {"|-- ", "+-- "}) - 1

\* the name a line ends with
NameOf(line) == SubSeq(line, Indent(line) + 2, Len(line))

\* C7: the root prints no line, a node at depth d has d-1 groups before its
\* glyph, so a top-level entry begins with its glyph, and the files a.py and
\* sub/c.py print as "|-- a.py", "+-- sub", "    +-- c.py"
C7_TreeLayout ==
    pc \in {"Publishing", "Done"} =>
        /\ Len(TreeLines) = Cardinality(NodePaths(root))
        /\ \A p \in NodePaths(root) :
               \E i \in 1..Len(TreeLines) :
                   NameOf(TreeLines[i]) = Last(p) /\ Indent(TreeLines[i]) = Len(p) - 1
        /\ Range(copied_files) = {<<a_py>>, <<sub, c_py>>} =>
               TreeLines = << <<"|-- ">> \o a_py,
                              <<"+-- ">> \o sub,
                              <<"    ", "+-- ">> \o c_py >>

---------------------------------------------------------------------------
(* C8 *)

PhaseRank(p) ==
    CASE p = "Init" -> 0
      [] p \in {"Walking", "Entry"} -> 1
      [] p = "TreeBuilding" -> 2
      [] p = "Rendering" -> 3
      [] p = "Publishing" -> 4
      [] p = "Done" -> 5
      [] p = "Failed" -> 6

Confirmation == <<"Code buffer has been copied to the clipboard.">>

\* C8: main goes through Init, Walking, TreeBuilding, Rendering, Publishing,
\* Done in this order and never back, or fails; the clipboard is written at
\* most once, with the whole buffer, when the walk is over and the tree is
\* printed; a failed run has written nothing to the clipboard, and a clipboard
\* failure comes after the tree and without the confirmation line
C8_PhasesInOrder ==
    /\ [][/\ PhaseRank(pc') \in {PhaseRank(pc), PhaseRank(pc) + 1} \/ pc' = "Failed"
          /\ pc \in {"Done", "Failed"} => pc' = pc
          /\ clipboard' # clipboard =>
                 /\ pc = "Publishing" /\ pc' = "Done"
                 /\ clipboard = <<>> /\ clipboard' = <<code_buffer>>
                 /\ Eligible = {} /\ entry = <<>>
                 /\ Range(copied_files) \subseteq NodePaths(root)
                 /\ <<"Copied Files Tree:">> \in Range(stdout)
                 /\ Len(TreeLines) = Cardinality(NodePaths(root))]_vars
    /\ [](Len(clipboard) <= 1)
    /\ [](pc = "Failed" => clipboard = <<>> /\ failure # "")
    /\ [](pc = "Done" => clipboard = <<code_buffer>> /\ Last(stdout) = Confirmation
                          /\ failure = "")
    /\ [](failure = "clipboard" =>
              /\ pc = "Failed"
              /\ <<"Copied Files Tree:">> \in Range(stdout)
              /\ Len(TreeLines) = Cardinality(NodePaths(root))
              /\ Confirmation \notin Range(stdout))

\* a run that ended with two files in the buffer it gave to the clipboard
C8_Witness ==
    /\ pc = "Done"
    /\ Len(copied_files) = 2
    /\ clipboard = <<code_buffer>>

---------------------------------------------------------------------------
(* C6 *)

\* the tree add_path builds from the paths of a sequence, in its order
RECURSIVE BuildTree(_)
BuildTree(paths) ==
    IF paths = <<>> THEN TreeNode_new(<<>>)
    ELSE add_path(BuildTree(Front(paths)), Last(paths))

\* the orderings without repeats of a set
Orderings(S) == {q \in [1..Cardinality(S) -> S] : Range(q) = S}

\* lines i < j are children of one node: of one depth, no line between them
\* less deep
Siblings(lines, i, j) ==
    /\ i < j
    /\ Indent(lines[i]) = Indent(lines[j])
    /\ \A k \in i..j : Indent(lines[k]) >= Indent(lines[i])

\* C6: the lines printed for a list of paths are those printed for every
\* ordering of the set of its paths, whatever the order and the repeats of the
\* list, and the children of every node are printed in ascending order of name
C6_TreeDeterministic ==
    pc = "Publishing" =>
        /\ \A q \in Orderings(Range(copied_files)) :
               print(BuildTree(q), <<>>, TRUE) = TreeLines
        /\ \A i, j \in 1..Len(TreeLines) :
               Siblings(TreeLines, i, j) => StrLess(NameOf(TreeLines[i]), NameOf(TreeLines[j]))

\* the tree is printed for a list that is not in sorted order and repeats a path
C6_Witness ==
    /\ pc = "Publishing"
    /\ copied_files = << <<sub, c_py>>, <<a_py>>, <<sub, c_py>> >>
    /\ Len(TreeLines) = 3

---------------------------------------------------------------------------
(* C10 *)

\* the paths given to add_path so far
Inserted == {copied_files[i] : i \in 1..(next_path - 1)}

NonEmptyPrefixes(S) == UNION {{SubSeq(p, 1, n) : n \in 1..Len(p)} : p \in S}

\* every child is filed under its own name, so the children of a node have
\* names that differ
RECURSIVE DistinctNames(_)
DistinctNames(node) ==
    \A k \in DOMAIN node.children :
        /\ node.children[k].name = k
        /\ \A o \in DOMAIN node.children : o # k => node.children[o].name # k
        /\ DistinctNames(node.children[k])

\* C10: the name paths of the tree are the non-empty prefixes of the paths
\* inserted; inserting the empty sequence or a path the tree has leaves the
\* tree as it is; the children of a node have names that differ
C10_TreeIsPrefixes ==
    /\ [](/\ NodePaths(root) = NonEmptyPrefixes(Inserted)
          /\ root.name = <<>>
          /\ DistinctNames(root))
    /\ [][(/\ next_path' = next_path + 1
           /\ \/ copied_files[next_path] = <<>>
              \/ copied_files[next_path] \in NodePaths(root))
          => root' = root]_vars

\* a path in a directory, the empty sequence and the same path again are in
\* the tree
C10_Witness ==
    /\ pc = "Rendering"
    /\ copied_files = << <<sub, c_py>>, <<>>, <<sub, c_py>> >>
    /\ NodePaths(root) = {<<sub>>, <<sub, c_py>>}

====
